---- MODULE Spec2Model ----
(***************************************************************************)
(* Batch orchestrator of gemini-automator, in its two shipped forms:       *)
(*   - the extension side panel (src/sidepanel.js, talking to              *)
(*     src/content.js through chrome.tabs.sendMessage), and                *)
(*   - the userscript (src/gemini-automator.user.js).                      *)
(* JavaScript runs one task at a time: every action below is one           *)
(* synchronous run of code between two awaits (or one event handler up to  *)
(* its first await).  A loop's position is the await it is suspended in.   *)
(***************************************************************************)
EXTENDS Integers, Sequences, FiniteSets, TLC

\* ---------------------------------------------------------------- bounds
MaxLines == 2      \* lines in the prompt text area
MaxStarts == 2     \* accepted start clicks (each may start one loop)
MaxEdits == 1      \* edits of the prompt text or of a delay field

\* ---------------------------------------------------------------- inputs
\* The prompts a user types, in order; the second one is typed with padding.
Words == <<"cat", " dog", "fox", "owl ">>

\* String.prototype.trim on the lines a user can type.
Trim(s) == CASE s = " dog" -> "dog" [] s = "owl " -> "owl" [] OTHER -> s

\* The text area's value, already split at newlines ("".split gives one empty
\* line): line k is empty or holds the k-th prompt.
Texts == UNION {{t \in [1..n -> {""} \cup {Words[k] : k \in 1..n}] :
                   \A k \in 1..n : t[k] \in {"", Words[k]}} : n \in 1..MaxLines}

\* Contents of the delay fields: empty, and decimal numbers.
MinInputs == {"", "3", "10"}
MaxInputs == {"", "10", "20"}

\* A JavaScript number that may be NaN is the set of its values: {} is NaN, {n} is n.
NaN == {}

\* parseInt on the delay fields above: NaN for the empty field.
parseInt(v) == CASE v = "3" -> {3} [] v = "5" -> {5} [] v = "10" -> {10} [] v = "20" -> {20} [] OTHER -> NaN

\* JavaScript's relational operators: every comparison with NaN is false.
JsLt(a, b) == \E x \in a : \E y \in b : x < y
JsGe(a, b) == \E x \in a : \E y \in b : x >= y

VARIABLES
  impl,          \* "sidepanel" or "userscript": which build is running
  promptText,    \* value of the prompt text area (sequence of lines)
  minDelay,      \* value of the min delay field
  maxDelay,      \* value of the max delay field
  isRunning,     \* state.isRunning
  isPaused,      \* state.isPaused
  prompts,       \* state.prompts
  currentIndex,  \* state.currentIndex
  startDisabled, \* startBtn.disabled
  pauseDisabled, \* pauseBtn.disabled
  stopDisabled,  \* stopBtn.disabled
  status,        \* status pill (side panel) / status line (userscript)
  handlers,      \* side panel start handlers suspended in their awaited checks
  starts,        \* accepted start clicks so far
  edits,         \* edits of the inputs so far
  loops,         \* loop n: the n-th call of startBatchProcess / runAutomation
  errors,        \* messages logged by the last start click
  wmOn,          \* userscript: state.removeWatermark && engine
  completed,     \* every report of completion: cursor and item count at that moment
  clean,         \* no stop, no failed step, no second start, no edit during the run so far
  fillLog,       \* while clean: the items whose fill was dispatched, in order
  doneLog,       \* while clean: the items whose await-completion succeeded, in order
  delayLog,      \* while clean: the inter-item delays slept (each the set of its possible lengths, in seconds)
  startBounds,   \* the delay fields as they were at the last accepted start click
  stoppedLoops,  \* the loops that had not returned when stop was clicked
  call           \* the call of a page-side function that is being followed, if any

vars == <<impl, promptText, minDelay, maxDelay, isRunning, isPaused, prompts,
          currentIndex, startDisabled, pauseDisabled, stopDisabled, status,
          handlers, starts, edits, loops, errors, wmOn, completed, clean,
          fillLog, doneLog, delayLog, startBounds, stoppedLoops, call>>

\* The variables of the orchestrator.
orchVars == <<impl, promptText, minDelay, maxDelay, isRunning, isPaused, prompts,
              currentIndex, startDisabled, pauseDisabled, stopDisabled, status,
              handlers, starts, edits, loops, errors, wmOn, completed, clean,
              fillLog, doneLog, delayLog, startBounds, stoppedLoops>>

\* No page-side function call is followed.
NoCall == [fn |-> "none"]

inputVars == <<promptText, minDelay, maxDelay, edits>>

\* What one synchronous run of a loop or of a click handler can write.
sharedVars == <<isRunning, isPaused, currentIndex, startDisabled, pauseDisabled,
                stopDisabled, status, completed, clean, fillLog, doneLog, delayLog,
                startBounds, stoppedLoops>>

LoopIds == 1..MaxStarts

\* A loop suspended at pc while processing item i; last is the item of its
\* previous attempt if that attempt failed without ending the run, else -1.
Loop(pc, i, last) == [pc |-> pc, i |-> i, last |-> last, log |-> {}]

NoLoop == Loop("none", 0, -1)

\* A loop whose function has returned; log holds the lines it logged on its way out.
Done(log) == [pc |-> "done", i |-> 0, last |-> -1, log |-> log]

\* Remote operations: a loop suspended in one of these has it in flight.
RemotePcs == {"fill", "trigger", "wait"}

\* ---------------------------------------------------------------- parsing
\* sidepanel.js parsePrompts: split at newlines, trim each, drop the empty ones.
parsePrompts(text) ==
  SelectSeq([k \in 1..Len(text) |-> Trim(text[k])], LAMBDA p : p # "")

\* userscript startAutomation: split at newlines, keep the lines whose trim is non-empty.
splitPrompts(text) == SelectSeq(text, LAMBDA p : Trim(p) # "")

\* Variant of validateSettings without the comparison of min with max.
validateSettings_NoOrder(ps, minV, maxV) ==
  (IF Len(ps) = 0 THEN {"Please enter at least one prompt"} ELSE {})
  \cup (IF JsLt(parseInt(minV), {5})
        THEN {"Min delay must be at least 5 seconds"} ELSE {})

\* sidepanel.js validateSettings: the set of error messages.
validateSettings(ps, minV, maxV) ==
  (IF Len(ps) = 0 THEN {"Please enter at least one prompt"} ELSE {})
  \cup (IF JsGe(parseInt(minV), parseInt(maxV))
        THEN {"Min delay must be less than max delay"} ELSE {})
  \cup (IF JsLt(parseInt(minV), {5})
        THEN {"Min delay must be at least 5 seconds"} ELSE {})

\* The lengths, in whole seconds, that the inter-item sleep can have for the
\* delay fields minV and maxV. Side panel, lines 268-273:
\* Math.floor(Math.random() * (max - min + 1)) + min; userscript, lines
\* 1431-1435: Math.random() * (max - min) + min. A NaN length makes setTimeout
\* fire at once.
sampleDelay(build, minV, maxV) ==
  IF parseInt(minV) = NaN \/ parseInt(maxV) = NaN THEN {0}
  ELSE LET a == CHOOSE x \in parseInt(minV) : TRUE
           b == CHOOSE x \in parseInt(maxV) : TRUE IN
       IF build = "sidepanel"
       THEN IF b - a + 1 > 0 THEN a..b ELSE IF b - a + 1 = 0 THEN {a} ELSE (b + 1)..a
       ELSE IF b > a THEN a..(b - 1) ELSE b..a

\* ---------------------------------------------------------------- state snapshots
\* The shared state and run controls as a record, so that one synchronous run
\* of code can be written as a chain of updates.
Now == [run |-> isRunning, paused |-> isPaused, cur |-> currentIndex,
        startDis |-> startDisabled, pauseDis |-> pauseDisabled,
        stopDis |-> stopDisabled, status |-> status, completed |-> completed,
        clean |-> clean, fillLog |-> fillLog, doneLog |-> doneLog,
        delayLog |-> delayLog, startBounds |-> startBounds,
        stoppedLoops |-> stoppedLoops]

Commit(s) ==
  /\ isRunning' = s.run
  /\ isPaused' = s.paused
  /\ currentIndex' = s.cur
  /\ startDisabled' = s.startDis
  /\ pauseDisabled' = s.pauseDis
  /\ stopDisabled' = s.stopDis
  /\ status' = s.status
  /\ completed' = s.completed
  /\ clean' = s.clean
  /\ fillLog' = s.fillLog
  /\ doneLog' = s.doneLog
  /\ delayLog' = s.delayLog
  /\ startBounds' = s.startBounds
  /\ stoppedLoops' = s.stoppedLoops

SetLoop(l, rec) == loops' = [loops EXCEPT ![l] = rec]

\* Observation of a run: the premise "clean" is given up, or an event is noted.
Unclean(s) ==
  [s EXCEPT !.clean = FALSE, !.fillLog = <<>>, !.doneLog = <<>>, !.delayLog = <<>>]
NoteDelay(s, d) == IF s.clean THEN [s EXCEPT !.delayLog = Append(@, d)] ELSE s
\* A stop click reaches the loops that have been called and have not returned.
NoteStop(s) ==
  [s EXCEPT !.stoppedLoops = @ \cup {l \in LoopIds : loops[l].pc \notin {"none", "done"}}]
NoteFill(s, k) == IF s.clean THEN [s EXCEPT !.fillLog = Append(@, k)] ELSE s
NoteDone(s, k) == IF s.clean THEN [s EXCEPT !.doneLog = Append(@, k)] ELSE s

\* ---------------------------------------------------------------- side panel
setRunningState(s) ==
  [s EXCEPT !.startDis = TRUE, !.pauseDis = FALSE, !.stopDis = FALSE, !.status = "Running"]

setStoppedState(s) ==
  [s EXCEPT !.startDis = FALSE, !.pauseDis = TRUE, !.stopDis = TRUE, !.status = "Stopped"]

setCompletedState(s) ==
  [s EXCEPT !.startDis = FALSE, !.pauseDis = TRUE, !.stopDis = TRUE, !.status = "Completed"]

\* Variant of SPComplete that leaves state.currentIndex as the loop left it.
SPComplete_KeepCursor(l, why, s, ps) ==
  IF s.run
  THEN LET t == setCompletedState(s) IN
       /\ Commit([t EXCEPT !.run = FALSE,
                           !.completed = @ \cup {[cursor |-> t.cur, total |-> Len(ps),
                                                   paused |-> t.paused]}])
       /\ SetLoop(l, Done(why \cup {"All prompts completed successfully"}))
  ELSE /\ Commit(s)
       /\ SetLoop(l, Done(why))

\* startBatchProcess, lines 290-311: the block after the loop. why is the line
\* the loop logged when it left the for statement.
SPComplete(l, why, s, ps) ==
  IF s.run
  THEN LET t == setCompletedState([s EXCEPT !.cur = Len(ps)]) IN
       /\ Commit([t EXCEPT !.run = FALSE,
                           !.completed = @ \cup {[cursor |-> t.cur, total |-> Len(ps),
                                                   paused |-> t.paused]}])
       /\ SetLoop(l, Done(why \cup {"All prompts completed successfully"}))
  ELSE /\ Commit(s)
       /\ SetLoop(l, Done(why))

\* startBatchProcess, lines 201-217: the pause wait's condition, the stop check
\* after it, the read of state.prompts[i] and the call of chrome.tabs.get.
SPAfterPause(l, i, last, s, ps) ==
  IF s.paused /\ s.run
  THEN Commit(s) /\ SetLoop(l, Loop("pausewait", i, last))
  ELSE IF ~s.run
  THEN SPComplete(l, {}, s, ps)
  ELSE IF i >= Len(ps)
  THEN \* state.prompts[i] is undefined: .trim() throws outside the try block
       Commit(s) /\ SetLoop(l, Loop("crashed", i, last))
  ELSE Commit(s) /\ SetLoop(l, Loop("probe", i, last))

\* startBatchProcess, lines 193-199: the for condition and the first stop check.
SPLoopHead(l, i, last, s, ps) ==
  IF i < Len(ps)
  THEN IF ~s.run
       THEN SPComplete(l, {"Batch process stopped"}, s, ps)
       ELSE SPAfterPause(l, i, last, s, ps)
  ELSE SPComplete(l, {}, s, ps)

\* Results of a message to the content script: "ok" ({success: true}), "failed"
\* ({success: false, error}), "error" (sendMessage rejects with some other
\* error), "lost" (it rejects with 'Could not establish connection' /
\* 'Receiving end does not exist').
Results == {"ok", "failed", "error", "lost"}

AtPc(l, pc) == loops[l].pc = pc

\* Variant of SPCatch whose connection-lost branch leaves state.isRunning set.
SPCatch_NoStop(l, r) ==
  IF r = "lost"
  THEN SPComplete(l, {"Lost connection to Gemini tab - stopping"}, Unclean(Now), prompts)
  ELSE SPLoopHead(l, loops[l].i + 1, loops[l].i, Unclean(Now), prompts)

\* startBatchProcess, lines 276-287: the catch block, then the next iteration.
SPCatch(l, r) ==
  IF r = "lost"
  THEN SPComplete(l, {"Lost connection to Gemini tab - stopping"},
                  [Unclean(Now) EXCEPT !.run = FALSE], prompts)
  ELSE SPLoopHead(l, loops[l].i + 1, loops[l].i, Unclean(Now), prompts)

\* startBatchProcess, line 202: await sleep(500) of the pause wait returns.
SPPauseWake(l) ==
  /\ impl = "sidepanel" /\ AtPc(l, "pausewait")
  /\ SPAfterPause(l, loops[l].i, loops[l].last, Now, prompts)
  /\ UNCHANGED <<impl, call, inputVars, prompts, handlers, starts, errors, wmOn>>

\* startBatchProcess, lines 216-240: the tab check returns (chrome.tabs.get,
\* tabs.update, sleep); on success the fill message is sent.
SPProbeDone(l, alive) ==
  /\ impl = "sidepanel" /\ AtPc(l, "probe")
  /\ IF alive
     THEN /\ SetLoop(l, [loops[l] EXCEPT !.pc = "fill"])
          /\ Commit(NoteFill(Now, loops[l].i))
     ELSE SPComplete(l, {"Gemini tab was closed - stopping batch process"},
                     [Unclean(Now) EXCEPT !.run = FALSE], prompts)
  /\ UNCHANGED <<impl, call, inputVars, prompts, handlers, starts, errors, wmOn>>

\* startBatchProcess, lines 237-241: the fill message returns; its response is not read.
SPFillDone(l, r) ==
  /\ impl = "sidepanel" /\ AtPc(l, "fill")
  /\ IF r \in {"ok", "failed"}
     THEN /\ SetLoop(l, [loops[l] EXCEPT !.pc = "fillsleep"])
          /\ Commit(IF r = "ok" THEN Now ELSE Unclean(Now))
     ELSE SPCatch(l, r)
  /\ UNCHANGED <<impl, call, inputVars, prompts, handlers, starts, errors, wmOn>>

\* startBatchProcess, lines 241-247: sleep(1000) returns, the generate message is sent.
SPFillSleepDone(l) ==
  /\ impl = "sidepanel" /\ AtPc(l, "fillsleep")
  /\ SetLoop(l, [loops[l] EXCEPT !.pc = "trigger"])
  /\ UNCHANGED <<impl, call, inputVars, prompts, handlers, starts, errors, wmOn, sharedVars>>

\* startBatchProcess, lines 245-253: the generate message returns (response not
\* read), the waitForCompletion message is sent.
SPTriggerDone(l, r) ==
  /\ impl = "sidepanel" /\ AtPc(l, "trigger")
  /\ IF r \in {"ok", "failed"}
     THEN /\ SetLoop(l, [loops[l] EXCEPT !.pc = "wait"])
          /\ Commit(IF r = "ok" THEN Now ELSE Unclean(Now))
     ELSE SPCatch(l, r)
  /\ UNCHANGED <<impl, call, inputVars, prompts, handlers, starts, errors, wmOn>>

\* startBatchProcess, lines 251-274: the waitForCompletion message returns.
SPWaitDone(l, r) ==
  /\ impl = "sidepanel" /\ AtPc(l, "wait")
  /\ LET i == loops[l].i IN
     CASE r = "ok" ->
            LET s == NoteDone([Now EXCEPT !.cur = i + 1], i) IN
            IF i < Len(prompts) - 1
            THEN /\ Commit(NoteDelay(s, sampleDelay(impl, minDelay, maxDelay)))
                 /\ SetLoop(l, Loop("delay", i, -1))
            ELSE SPLoopHead(l, i + 1, -1, s, prompts)
       [] r = "failed" -> SPLoopHead(l, i + 1, i, Unclean(Now), prompts)
       [] OTHER -> SPCatch(l, r)
  /\ UNCHANGED <<impl, call, inputVars, prompts, handlers, starts, errors, wmOn>>

\* Variant of SPDelayDone that re-enters the loop at the item just completed.
SPDelayDone_Repeat(l) ==
  /\ impl = "sidepanel" /\ AtPc(l, "delay")
  /\ SPLoopHead(l, loops[l].i, -1, Now, prompts)
  /\ UNCHANGED <<impl, call, inputVars, prompts, handlers, starts, errors, wmOn>>

\* startBatchProcess, line 273: the inter-item sleep returns.
SPDelayDone(l) ==
  /\ impl = "sidepanel" /\ AtPc(l, "delay")
  /\ SPLoopHead(l, loops[l].i + 1, -1, Now, prompts)
  /\ UNCHANGED <<impl, call, inputVars, prompts, handlers, starts, errors, wmOn>>

\* ---------------------------------------------------------------- side panel handlers
\* The slot of the next loop to start.
NextLoop ==
  CHOOSE l \in LoopIds : loops[l].pc = "none" /\ \A k \in 1..(l - 1) : loops[k].pc # "none"

\* What the awaited checks of the start handler can log before it returns.
StartCheckErrors == {"Please open Gemini tab before starting",
                     "Failed to inject content script"}

\* start click, lines 361-373: parsePrompts, validateSettings, then the
\* handler is suspended in validateGeminiTab.
SPStartClick ==
  /\ impl = "sidepanel" /\ ~startDisabled
  /\ LET ps == parsePrompts(promptText)
         errs == validateSettings(ps, minDelay, maxDelay) IN
     /\ errs = {} => starts < MaxStarts
     /\ prompts' = ps
     /\ errors' = errs
     /\ handlers' = IF errs = {} THEN handlers + 1 ELSE handlers
     /\ starts' = IF errs = {} THEN starts + 1 ELSE starts
     /\ Commit(IF errs = {} THEN [Now EXCEPT !.startBounds = <<minDelay, maxDelay>>]
                ELSE Now)
  /\ UNCHANGED <<impl, call, promptText, minDelay, maxDelay, edits, loops, wmOn>>

\* start handler, lines 376-397: one of the awaited checks fails, the handler returns.
SPStartRefused(e) ==
  /\ impl = "sidepanel" /\ handlers > 0
  /\ handlers' = handlers - 1
  /\ errors' = {e}
  /\ UNCHANGED <<impl, call, inputVars, prompts, starts, loops, wmOn, sharedVars>>

\* start handler, lines 399-420: the checks passed; the state is initialised
\* and startBatchProcess runs up to its first await.
SPStartRun ==
  /\ impl = "sidepanel" /\ handlers > 0
  /\ handlers' = handlers - 1
  /\ LET s0 == IF loops[1].pc = "none" THEN Now ELSE Unclean(Now) IN
     SPLoopHead(NextLoop, 0, -1,
                setRunningState([s0 EXCEPT !.run = TRUE, !.paused = FALSE, !.cur = 0]),
                prompts)
  /\ UNCHANGED <<impl, call, inputVars, prompts, starts, errors, wmOn>>

\* Variant of SPPauseClick whose resume also moves the cursor on.
SPPauseClick_Skip ==
  /\ impl = "sidepanel" /\ ~pauseDisabled
  /\ Commit([Now EXCEPT !.paused = ~isPaused,
                        !.cur = IF isPaused THEN currentIndex + 1 ELSE currentIndex,
                        !.status = IF isPaused THEN "Running" ELSE "Paused"])
  /\ UNCHANGED <<impl, call, inputVars, prompts, handlers, starts, loops, errors, wmOn>>

\* pause click, lines 423-435.
SPPauseClick ==
  /\ impl = "sidepanel" /\ ~pauseDisabled
  /\ Commit([Now EXCEPT !.paused = ~isPaused,
                        !.status = IF isPaused THEN "Running" ELSE "Paused"])
  /\ UNCHANGED <<impl, call, inputVars, prompts, handlers, starts, loops, errors, wmOn>>

\* stop click, lines 437-442.
SPStopClick ==
  /\ impl = "sidepanel" /\ ~stopDisabled
  /\ Commit(setStoppedState([NoteStop(Unclean(Now)) EXCEPT !.run = FALSE, !.paused = FALSE]))
  /\ UNCHANGED <<impl, call, inputVars, prompts, handlers, starts, loops, errors, wmOn>>

\* input event of the prompt text area, line 317: parsePrompts.
SPEditPrompts(t) ==
  /\ impl = "sidepanel" /\ edits < MaxEdits /\ t # promptText
  /\ promptText' = t
  /\ prompts' = parsePrompts(t)
  /\ edits' = edits + 1
  /\ Commit(IF starts > 0 THEN Unclean(Now) ELSE Now)
  /\ UNCHANGED <<impl, call, minDelay, maxDelay, handlers, starts, loops, errors, wmOn>>

\* The user changes one of the delay fields (either build; no listener).
EditDelay(lo, hi) ==
  /\ edits < MaxEdits
  /\ <<lo, hi>> # <<minDelay, maxDelay>>
  /\ lo = minDelay \/ hi = maxDelay
  /\ minDelay' = lo /\ maxDelay' = hi
  /\ edits' = edits + 1
  /\ UNCHANGED <<impl, call, promptText, prompts, handlers, starts, loops, errors, wmOn, sharedVars>>

\* ---------------------------------------------------------------- userscript
stopAutomation(s) ==
  [s EXCEPT !.run = FALSE, !.paused = FALSE, !.startDis = FALSE,
            !.pauseDis = TRUE, !.stopDis = TRUE, !.status = "Stopped"]

\* runAutomation, lines 1407-1419 and 1443-1446: the while condition, the pause
\* branch, the call of fillPrompt; after the loop, the report of completion.
USLoopHead(l, last, s, ps) ==
  IF s.run /\ s.cur < Len(ps)
  THEN IF s.paused
       THEN Commit(s) /\ SetLoop(l, Loop("pausewait", s.cur, last))
       ELSE /\ Commit(NoteFill([s EXCEPT !.status = "Processing"], s.cur))
            /\ SetLoop(l, Loop("fill", s.cur, last))
  ELSE IF s.run
  THEN /\ Commit(stopAutomation(
                   [s EXCEPT !.completed = @ \cup {[cursor |-> s.cur, total |-> Len(ps),
                                                     paused |-> s.paused]}]))
       /\ SetLoop(l, Done({"Automation complete!"}))
  ELSE Commit(s) /\ SetLoop(l, Done({}))

\* startAutomation, lines 1382-1401, with runAutomation up to its first await.
startAutomation ==
  /\ impl = "userscript" /\ ~startDisabled
  /\ LET ps == splitPrompts(promptText) IN
     /\ prompts' = ps
     /\ IF Len(ps) = 0
        THEN /\ Commit([Now EXCEPT !.status = "Please enter some prompts"])
             /\ errors' = {"Please enter some prompts"}
             /\ UNCHANGED <<starts, loops>>
        ELSE /\ starts < MaxStarts
             /\ starts' = starts + 1
             /\ errors' = {}
             /\ LET s0 == IF loops[1].pc = "none" THEN Now ELSE Unclean(Now) IN
                USLoopHead(NextLoop, -1,
                           [s0 EXCEPT !.startBounds = <<minDelay, maxDelay>>,
                                      !.run = TRUE, !.paused = FALSE, !.cur = 0,
                                      !.startDis = TRUE, !.pauseDis = FALSE,
                                      !.stopDis = FALSE,
                                      !.status = "Starting automation..."], ps)
  /\ UNCHANGED <<impl, call, inputVars, handlers, wmOn>>

\* pauseAutomation, lines 1449-1453.
pauseAutomation ==
  /\ impl = "userscript" /\ ~pauseDisabled
  /\ Commit([Now EXCEPT !.paused = ~isPaused,
                        !.status = IF isPaused THEN "Running..." ELSE "Paused"])
  /\ UNCHANGED <<impl, call, inputVars, prompts, handlers, starts, loops, errors, wmOn>>

\* stop click: stopAutomation, lines 1455-1463.
USStopClick ==
  /\ impl = "userscript" /\ ~stopDisabled
  /\ Commit(stopAutomation(NoteStop(Unclean(Now))))
  /\ UNCHANGED <<impl, call, inputVars, prompts, handlers, starts, loops, errors, wmOn>>

\* The user edits the prompt text area; state.prompts is read only by start.
USEditPrompts(t) ==
  /\ impl = "userscript" /\ edits < MaxEdits /\ t # promptText
  /\ promptText' = t
  /\ edits' = edits + 1
  /\ UNCHANGED <<impl, call, minDelay, maxDelay, prompts, handlers, starts, loops, errors,
                 wmOn, sharedVars>>

\* runAutomation, lines 1408-1411: sleep(1000) of the pause branch returns.
USPauseWake(l) ==
  /\ impl = "userscript" /\ AtPc(l, "pausewait")
  /\ USLoopHead(l, loops[l].last, Now, prompts)
  /\ UNCHANGED <<impl, call, inputVars, prompts, handlers, starts, errors, wmOn>>

\* runAutomation, lines 1437-1440: the catch block up to its sleep(3000).
USCatch(l) ==
  /\ Commit([Unclean(Now) EXCEPT !.status = "Error"])
  /\ SetLoop(l, Loop("errsleep", loops[l].i, loops[l].i))

\* runAutomation, lines 1418-1419: fillPrompt returns or throws; clickGenerate is called.
USFillDone(l, r) ==
  /\ impl = "userscript" /\ AtPc(l, "fill")
  /\ IF r = "ok"
     THEN /\ SetLoop(l, [loops[l] EXCEPT !.pc = "trigger"])
          /\ UNCHANGED sharedVars
     ELSE USCatch(l)
  /\ UNCHANGED <<impl, call, inputVars, prompts, handlers, starts, errors, wmOn>>

\* runAutomation, lines 1419-1420: clickGenerate returns or throws; waitForCompletion is called.
USTriggerDone(l, r) ==
  /\ impl = "userscript" /\ AtPc(l, "trigger")
  /\ IF r = "ok"
     THEN /\ SetLoop(l, [loops[l] EXCEPT !.pc = "wait"])
          /\ UNCHANGED sharedVars
     ELSE USCatch(l)
  /\ UNCHANGED <<impl, call, inputVars, prompts, handlers, starts, errors, wmOn>>

\* runAutomation, lines 1427-1436: state.currentIndex++, then the delay or the
\* next turn of the loop.
USAfterItem(l, s0) ==
  LET s == [s0 EXCEPT !.cur = s0.cur + 1] IN
  IF s.cur < Len(prompts)
  THEN /\ Commit(NoteDelay([s EXCEPT !.status = "Waiting"],
                            sampleDelay(impl, minDelay, maxDelay)))
       /\ SetLoop(l, Loop("delay", loops[l].i, -1))
  ELSE USLoopHead(l, -1, s, prompts)

\* runAutomation, lines 1420-1425: waitForCompletion returns.
USWaitDone(l) ==
  /\ impl = "userscript" /\ AtPc(l, "wait")
  /\ IF wmOn
     THEN /\ SetLoop(l, [loops[l] EXCEPT !.pc = "wmsleep"])
          /\ Commit(NoteDone(Now, loops[l].i))
     ELSE USAfterItem(l, NoteDone(Now, loops[l].i))
  /\ UNCHANGED <<impl, call, inputVars, prompts, handlers, starts, errors, wmOn>>

\* runAutomation, lines 1423-1425: sleep(2000) returns, processAllImages is called.
USWmSleepReturn(l) ==
  /\ impl = "userscript" /\ AtPc(l, "wmsleep")
  /\ USAfterItem(l, Now)
  /\ UNCHANGED <<impl, inputVars, prompts, handlers, starts, errors, wmOn>>

\* The same with no image on the page.
USWmSleepDone(l) == USWmSleepReturn(l) /\ UNCHANGED call

\* runAutomation, line 1435: the inter-item sleep returns.
USDelayDone(l) ==
  /\ impl = "userscript" /\ AtPc(l, "delay")
  /\ USLoopHead(l, -1, Now, prompts)
  /\ UNCHANGED <<impl, call, inputVars, prompts, handlers, starts, errors, wmOn>>

\* runAutomation, line 1439: sleep(3000) of the catch block returns.
USErrSleepDone(l) ==
  /\ impl = "userscript" /\ AtPc(l, "errsleep")
  /\ USLoopHead(l, loops[l].last, Now, prompts)
  /\ UNCHANGED <<impl, call, inputVars, prompts, handlers, starts, errors, wmOn>>

\* ---------------------------------------------------------------- the system
Init ==
  /\ impl \in {"sidepanel", "userscript"}
  /\ promptText \in Texts
  /\ minDelay = "10" /\ maxDelay = "20"
  /\ isRunning = FALSE /\ isPaused = FALSE
  /\ prompts = IF impl = "sidepanel" THEN parsePrompts(promptText) ELSE <<>>
  /\ currentIndex = 0
  /\ startDisabled = FALSE /\ pauseDisabled = TRUE /\ stopDisabled = TRUE
  /\ status = "Ready"
  /\ handlers = 0 /\ starts = 0 /\ edits = 0
  /\ loops = [l \in LoopIds |-> NoLoop]
  /\ errors = {}
  /\ wmOn \in (IF impl = "userscript" THEN BOOLEAN ELSE {FALSE})
  /\ completed = {}
  /\ clean = TRUE /\ fillLog = <<>> /\ doneLog = <<>> /\ delayLog = <<>>
  /\ startBounds = <<minDelay, maxDelay>>
  /\ stoppedLoops = {}
  /\ call = NoCall

Next ==
  \/ SPStartClick
  \/ \E e \in StartCheckErrors : SPStartRefused(e)
  \/ SPStartRun
  \/ SPPauseClick
  \/ SPStopClick
  \/ \E t \in Texts : SPEditPrompts(t)
  \/ \E lo \in MinInputs, hi \in MaxInputs : EditDelay(lo, hi)
  \/ \E l \in LoopIds : SPPauseWake(l)
  \/ \E l \in LoopIds, alive \in BOOLEAN : SPProbeDone(l, alive)
  \/ \E l \in LoopIds, r \in Results : SPFillDone(l, r)
  \/ \E l \in LoopIds : SPFillSleepDone(l)
  \/ \E l \in LoopIds, r \in Results : SPTriggerDone(l, r)
  \/ \E l \in LoopIds, r \in Results : SPWaitDone(l, r)
  \/ \E l \in LoopIds : SPDelayDone(l)
  \/ startAutomation
  \/ pauseAutomation
  \/ USStopClick
  \/ \E t \in Texts : USEditPrompts(t)
  \/ \E l \in LoopIds : USPauseWake(l)
  \/ \E l \in LoopIds, r \in {"ok", "error"} : USFillDone(l, r)
  \/ \E l \in LoopIds, r \in {"ok", "error"} : USTriggerDone(l, r)
  \/ \E l \in LoopIds : USWaitDone(l)
  \/ \E l \in LoopIds : USWmSleepDone(l)
  \/ \E l \in LoopIds : USDelayDone(l)
  \/ \E l \in LoopIds : USErrSleepDone(l)

Spec == Init /\ [][Next]_vars

\* ---------------------------------------------------------------- scenario runs
\* Runs of the two-item list "cat", "dog" with fixed delay fields and without
\* pause, stop or edit; every step eventually returns.
ScenarioDelays == {<<"5", "5">>, <<"5", "10">>, <<"10", "20">>}

InitScenario ==
  /\ impl \in {"sidepanel", "userscript"}
  /\ promptText = <<"cat", " dog">>
  /\ \E d \in ScenarioDelays : minDelay = d[1] /\ maxDelay = d[2]
  /\ isRunning = FALSE /\ isPaused = FALSE
  /\ prompts = IF impl = "sidepanel" THEN parsePrompts(promptText) ELSE <<>>
  /\ currentIndex = 0
  /\ startDisabled = FALSE /\ pauseDisabled = TRUE /\ stopDisabled = TRUE
  /\ status = "Ready"
  /\ handlers = 0 /\ starts = 0 /\ edits = 0
  /\ loops = [l \in LoopIds |-> NoLoop]
  /\ errors = {}
  /\ wmOn \in (IF impl = "userscript" THEN BOOLEAN ELSE {FALSE})
  /\ completed = {}
  /\ clean = TRUE /\ fillLog = <<>> /\ doneLog = <<>> /\ delayLog = <<>>
  /\ startBounds = <<minDelay, maxDelay>>
  /\ stoppedLoops = {}
  /\ call = NoCall

\* The return of the step that loop l awaits.
StepScenario(l) ==
  \/ \E alive \in BOOLEAN : SPProbeDone(l, alive)
  \/ \E r \in Results : SPFillDone(l, r)
  \/ SPFillSleepDone(l)
  \/ \E r \in Results : SPTriggerDone(l, r)
  \/ \E r \in Results : SPWaitDone(l, r)
  \/ SPDelayDone(l)
  \/ \E r \in {"ok", "error"} : USFillDone(l, r)
  \/ \E r \in {"ok", "error"} : USTriggerDone(l, r)
  \/ USWaitDone(l)
  \/ USWmSleepDone(l)
  \/ USDelayDone(l)
  \/ USErrSleepDone(l)

StartHandlerDone == SPStartRun \/ \E e \in StartCheckErrors : SPStartRefused(e)

NextScenario ==
  \/ SPStartClick
  \/ StartHandlerDone
  \/ startAutomation
  \/ \E l \in LoopIds : StepScenario(l)

SpecScenario ==
  /\ InitScenario /\ [][NextScenario]_vars
  /\ WF_vars(StartHandlerDone)
  /\ \A l \in LoopIds : SF_vars(StepScenario(l))

\* ---------------------------------------------------------------- clickGenerate
\* content.js lines 153-181 and userscript lines 344-364 (the same code).
MaxAttempts == 20

\* What document.querySelector(SELECTORS.generateBtn) can find at one check:
\* nothing, the control with offsetParent === null, or the visible control.
DomStates == {"null", "hidden", "visible"}

\* The orchestrator at rest in build b.
OrchIdle(b) ==
  /\ impl = b
  /\ promptText = <<"cat">>
  /\ minDelay = "10" /\ maxDelay = "20"
  /\ isRunning = FALSE /\ isPaused = FALSE
  /\ prompts = IF b = "sidepanel" THEN parsePrompts(promptText) ELSE <<>>
  /\ currentIndex = 0
  /\ startDisabled = FALSE /\ pauseDisabled = TRUE /\ stopDisabled = TRUE
  /\ status = "Ready"
  /\ handlers = 0 /\ starts = 0 /\ edits = 0
  /\ loops = [l \in LoopIds |-> NoLoop]
  /\ errors = {}
  /\ wmOn = FALSE
  /\ completed = {}
  /\ clean = TRUE /\ fillLog = <<>> /\ doneLog = <<>> /\ delayLog = <<>>
  /\ startBounds = <<minDelay, maxDelay>>
  /\ stoppedLoops = {}

\* clickGenerate has been called: attempts = 0, sendBtn = null. checks counts
\* the querySelector calls, seen tells whether any of them found the control
\* visible, clicked is the element that was clicked.
InitClick ==
  /\ \E b \in {"sidepanel", "userscript"} : OrchIdle(b)
  /\ call = [fn |-> "clickGenerate", attempts |-> 0, sendBtn |-> "null", checks |-> 0,
             seen |-> FALSE, clicked |-> "nothing", result |-> "running"]

\* clickGenerate after its while statement: the throw, or the click of the
\* enclosing button (closest('button') || parentElement, if it is a BUTTON)
\* or else of the icon itself.
clickGenerateEnd(c, hasButton) ==
  IF c.sendBtn = "null"
  THEN [c EXCEPT !.result = "error"]
  ELSE [c EXCEPT !.result = "clicked",
                 !.clicked = IF hasButton THEN "button" ELSE "icon"]

\* One turn of the while statement: querySelector finds dom; if the control is
\* visible the loop is left, otherwise sleep(200) and attempts++, and the loop
\* is left when attempts reaches 20.
clickGenerateCheck(dom, hasButton) ==
  /\ call.fn = "clickGenerate" /\ call.result = "running"
  /\ call.attempts < MaxAttempts
  /\ LET c == [call EXCEPT !.sendBtn = dom, !.checks = @ + 1,
                           !.seen = @ \/ dom = "visible"] IN
     IF dom = "visible"
     THEN call' = clickGenerateEnd(c, hasButton)
     ELSE LET d == [c EXCEPT !.attempts = @ + 1] IN
          IF d.attempts < MaxAttempts
          THEN call' = d
          ELSE call' = clickGenerateEnd(d, hasButton)
  /\ UNCHANGED orchVars

NextClick == \E dom \in DomStates, hasButton \in BOOLEAN : clickGenerateCheck(dom, hasButton)

SpecClick == InitClick /\ [][NextClick]_vars

\* ---------------------------------------------------------------- watermark geometry
\* Image widths and heights that are tried.
Sides == {1, 48, 800, 1023, 1024, 1025, 2048}

\* Variant of detectWatermarkConfig that takes one long side for a large image.
detectWatermarkConfig_Or(imageWidth, imageHeight) ==
  IF imageWidth > 1024 \/ imageHeight > 1024
  THEN [logoSize |-> 96, marginRight |-> 64, marginBottom |-> 64]
  ELSE [logoSize |-> 48, marginRight |-> 32, marginBottom |-> 32]

\* userscript lines 76-81.
detectWatermarkConfig(imageWidth, imageHeight) ==
  IF imageWidth > 1024 /\ imageHeight > 1024
  THEN [logoSize |-> 96, marginRight |-> 64, marginBottom |-> 64]
  ELSE [logoSize |-> 48, marginRight |-> 32, marginBottom |-> 32]

\* userscript lines 86-94.
calculateWatermarkPosition(imageWidth, imageHeight, config) ==
  [x |-> imageWidth - config.marginRight - config.logoSize,
   y |-> imageHeight - config.marginBottom - config.logoSize,
   width |-> config.logoSize,
   height |-> config.logoSize]

\* An image of some size is about to be measured (removeWatermarkFromImage,
\* userscript lines 149-150).
InitGeometry ==
  /\ OrchIdle("userscript")
  /\ \E w \in Sides, h \in Sides :
       call = [fn |-> "geometry", stage |-> "image", width |-> w, height |-> h,
               config |-> <<>>, position |-> <<>>]

GeometryDetect ==
  /\ call.fn = "geometry" /\ call.stage = "image"
  /\ call' = [call EXCEPT !.stage = "config",
                          !.config = detectWatermarkConfig(call.width, call.height)]
  /\ UNCHANGED orchVars

GeometryPosition ==
  /\ call.fn = "geometry" /\ call.stage = "config"
  /\ call' = [call EXCEPT !.stage = "position",
                          !.position = calculateWatermarkPosition(call.width, call.height,
                                                                  call.config)]
  /\ UNCHANGED orchVars

NextGeometry == GeometryDetect \/ GeometryPosition

SpecGeometry == InitGeometry /\ [][NextGeometry]_vars

\* ---------------------------------------------------------------- watermark arithmetic
\* A JavaScript number is the record [n, d, e]: the value n/d displaced by an
\* amount of sign e that is smaller than any difference the code can observe
\* except at a rounding tie (d > 0).
Num(n, d) == [n |-> n, d |-> d, e |-> 0]

\* userscript lines 30-32.
ALPHA_THRESHOLD == Num(2, 1000)

MAX_ALPHA == Num(99, 100)

LOGO_VALUE == 255

Bytes == 0..255

\* a < b.
NumLt(a, b) == a.n * b.d < b.n * a.d

\* Math.min(a, b).
MathMin(a, b) == IF NumLt(b, a) THEN b ELSE a

Pow2(t) == CASE t = 0 -> 1 [] t = 1 -> 2 [] t = 2 -> 4 [] t = 3 -> 8 [] t = 4 -> 16
             [] t = 5 -> 32 [] t = 6 -> 64 [] t = 7 -> 128 [] t = 8 -> 256

\* The store of maxChannel / 255 into a Float32Array (line 46) rounds the
\* quotient to 24 significant bits: with 2^(t-1) <= 255 / k < 2^t the kept
\* bits are floor(k * 2^(23+t) / 255), and the remainder modulo 255 (where
\* 2^8 = 1) decides whether the stored value lies above or below k / 255.
Float32(k) ==
  IF k = 0 \/ k = 255 THEN Num(k, 255)
  ELSE LET t == CHOOSE u \in 1..8 : k * Pow2(u) >= 255 /\ k * Pow2(u - 1) < 255
           rem == (k * Pow2((t + 7) % 8)) % 255
       IN  [n |-> k, d |-> 255, e |-> IF rem >= 128 THEN 1 ELSE -1]

Max3(r, g, b) == IF r >= g /\ r >= b THEN r ELSE IF g >= b THEN g ELSE b

\* userscript lines 37-49: bgCaptureImageData is [width, height, data], data
\* being indexed from 0 as in the code.
calculateAlphaMap(bgCaptureImageData) ==
  [i \in 0..(bgCaptureImageData.width * bgCaptureImageData.height - 1) |->
     Float32(Max3(bgCaptureImageData.data[i * 4],
                  bgCaptureImageData.data[i * 4 + 1],
                  bgCaptureImageData.data[i * 4 + 2]))]

\* 1 - alpha (line 63) as a number.
OneMinus(alpha) == [n |-> alpha.d - alpha.n, d |-> alpha.d, e |-> -alpha.e]

\* Math.max(0, Math.min(255, Math.round(q))) for the quotient q = num / den
\* (den > 0) displaced by sign e. Math.round is floor(q + 1/2), so that only
\* at a tie the displacement matters.
ClampRound(num, den, e) ==
  LET r    == (2 * num + den) \div (2 * den)
      tie  == (2 * num + den) % (2 * den) = 0
      rr   == IF tie /\ e < 0 THEN r - 1 ELSE r
  IN  IF rr < 0 THEN 0 ELSE IF rr > 255 THEN 255 ELSE rr

\* Lines 65-67 for one channel, alpha being the clamped value: the byte that
\* the assignment to imageData.data[imgIdx + c] (a Uint8ClampedArray) stores.
\* A zero divisor gives an infinity or NaN, stored as 255 or 0.
RestoreChannel(watermarked, alpha) ==
  LET num == watermarked * alpha.d - alpha.n * LOGO_VALUE
      den == alpha.d - alpha.n
      \* the quotient falls when alpha rises, unless watermarked = 255
      e   == IF watermarked = LOGO_VALUE THEN 0 ELSE -alpha.e
  IN  IF den = 0 THEN (IF num > 0 THEN 255 ELSE 0)
      ELSE IF den > 0 THEN ClampRound(num, den, e)
      ELSE ClampRound(-num, -den, e)

\* Variant of the clamp of line 62 that leaves alpha as it is.
ClampAlpha_None(alpha) == alpha

\* Line 62.
ClampAlpha(alpha) == MathMin(alpha, MAX_ALPHA)

\* Variant of line 61 that skips no pixel.
Skipped_Never(alpha) == FALSE

\* Line 61.
Skipped(alpha) == NumLt(alpha, ALPHA_THRESHOLD)

\* Lines 60-68 for one channel of one pixel.
RemoveFromChannel(watermarked, alpha) ==
  IF Skipped(alpha) THEN watermarked ELSE RestoreChannel(watermarked, ClampAlpha(alpha))

\* The alpha values calculateAlphaMap can produce, and values given to
\* removeWatermark directly (0.001, 0.002, 0.5, 0.99, 1, 1.5 and -0.5).
CaptureAlphas == {Float32(k) : k \in Bytes}

TestAlphas == {Num(1, 1000), Num(2, 1000), Num(1, 2), Num(99, 100), Num(1, 1),
               Num(3, 2), Num(-1, 2)}

\* The byte a canvas holds for the composite a * 255 + (1 - a) * original of
\* a white logo over the original (rounded to the nearest byte; with a = k / 255
\* the composite is never halfway between two bytes).
CompositeByte(original, alpha) ==
  LET num == alpha.n * LOGO_VALUE + (alpha.d - alpha.n) * original
      r   == (2 * num + alpha.d) \div (2 * alpha.d)
  IN  IF r < 0 THEN 0 ELSE IF r > 255 THEN 255 ELSE r

\* One channel of one footprint pixel: either the original byte and the
\* opacity of a composite still to be made, or the byte of an image as it is.
InitChannel ==
  /\ OrchIdle("userscript")
  /\ \/ \E o \in Bytes, a \in CaptureAlphas :
          call = [fn |-> "channel", stage |-> "original", original |-> o, alpha |-> a,
                  observed |-> o, skipped |-> FALSE, divisor |-> Num(1, 1), restored |-> o]
     \/ \E b \in Bytes, a \in CaptureAlphas \cup TestAlphas :
          call = [fn |-> "channel", stage |-> "observed", original |-> b, alpha |-> a,
                  observed |-> b, skipped |-> FALSE, divisor |-> Num(1, 1), restored |-> b]

ChannelComposite ==
  /\ call.fn = "channel" /\ call.stage = "original"
  /\ call' = [call EXCEPT !.stage = "observed",
                          !.observed = CompositeByte(call.original, call.alpha)]
  /\ UNCHANGED orchVars

\* The inner loop of removeWatermark (lines 60-68) on the channel.
ChannelRemove ==
  /\ call.fn = "channel" /\ call.stage = "observed"
  /\ call' = [call EXCEPT !.stage = "restored",
                          !.skipped = Skipped(call.alpha),
                          !.divisor = IF Skipped(call.alpha) THEN @
                                      ELSE OneMinus(ClampAlpha(call.alpha)),
                          !.restored = RemoveFromChannel(call.observed, call.alpha)]
  /\ UNCHANGED orchVars

NextChannel == ChannelComposite \/ ChannelRemove

SpecChannel == InitChannel /\ [][NextChannel]_vars

\* ---------------------------------------------------------------- watermark removal
\* How often removeWatermark is applied to one image.
MaxRuns == 2

\* The width and height of the images that are tried.
ImageSizes == {<<1, 1>>, <<30, 200>>, <<50, 100>>, <<80, 80>>, <<100, 90>>,
               <<1025, 100>>, <<1025, 1025>>}

\* What drawImage put on the canvas: the byte at index idx of getImageData.
Canvases == {"black", "white", "ramp"}

CanvasByte(canvas, idx) ==
  CASE canvas = "black" -> IF idx % 4 = 3 THEN 255 ELSE 0
    [] canvas = "white" -> 255
    [] canvas = "ramp"  -> (idx * 7 + idx \div 4) % 256

\* imageData of lines 148-152: [width, height, canvas, data], where data
\* holds the elements of imageData.data that have been assigned; every other
\* element has the byte of the canvas.
ImageData(w, h, canvas) ==
  [width |-> w, height |-> h, canvas |-> canvas, data |-> [idx \in {} |-> 0]]

\* imageData.data[idx] for an index within the array.
DataAt(imageData, idx) ==
  IF idx \in DOMAIN imageData.data THEN imageData.data[idx]
  ELSE CanvasByte(imageData.canvas, idx)

\* The reference capture of the logo of one size, drawn on a canvas
\* (getAlphaMap, lines 130-136); every third pixel of it is black.
bgCapture(size) ==
  [width |-> size, height |-> size,
   data |-> [idx \in 0..(size * size * 4 - 1) |->
               IF idx % 4 = 3 THEN 255
               ELSE IF (idx \div 4) % 3 = 0 THEN 0
               ELSE (idx * 5) % 256]]

\* The alpha maps given to removeWatermark: all zero, the one of the engine,
\* and one with the value 1.5 everywhere.
AlphaKinds == {"zero", "capture", "over"}

AlphaMapOf(kind, size) ==
  CASE kind = "zero"    -> [i \in 0..(size * size - 1) |-> Num(0, 1)]
    [] kind = "capture" -> calculateAlphaMap(bgCapture(size))
    [] kind = "over"    -> [i \in 0..(size * size - 1) |-> Num(3, 2)]

\* Lines 60-68 applied to one byte once for every alpha of the sequence.
RECURSIVE RemoveAll(_, _)
RemoveAll(v, alphas) ==
  IF alphas = <<>> THEN v
  ELSE RemoveAll(RemoveFromChannel(v, Head(alphas)), Tail(alphas))

\* -((-a) div b): the least integer that is at least a / b.
CeilDiv(a, b) == -((-a) \div b)

\* userscript lines 54-71. imgIdx / 4 is the pixel (y + row) * width + (x + col);
\* an element outside the array reads as undefined and its assignment is
\* ignored. A pixel is reached in the rows listed by RowsOf, in rising order,
\* and its byte is assigned in every row whose alpha is not skipped.
removeWatermark(imageData, alphaMap, position) ==
  LET W == imageData.width
      pixels == W * imageData.height
      Pixel(row, col) == (position.y + row) * W + (position.x + col)
      Reached == {p \in {Pixel(row, col) : row \in 0..(position.height - 1),
                                          col \in 0..(position.width - 1)} :
                    0 <= p /\ p < pixels}
      RowsOf(p) ==
        LET lo == CeilDiv(p - position.x - position.width + 1, W) - position.y
            hi == ((p - position.x) \div W) - position.y
        IN  {row \in lo..hi : /\ row \in 0..(position.height - 1)
                              /\ p - Pixel(row, 0) \in 0..(position.width - 1)}
      Alphas(p) ==
        LET rows == RowsOf(p)
            Nth(k) == CHOOSE r \in rows : Cardinality({q \in rows : q < r}) = k - 1
        IN  [k \in 1..Cardinality(rows) |->
               alphaMap[Nth(k) * position.width + (p - Pixel(Nth(k), 0))]]
      Assigned == {p \in Reached : \E k \in DOMAIN Alphas(p) : ~Skipped(Alphas(p)[k])}
      indexes == {p * 4 + c : p \in Assigned, c \in 0..2}
  IN  [imageData EXCEPT !.data =
         [idx \in (DOMAIN imageData.data) \cup indexes |->
            IF idx \in indexes
            THEN RemoveAll(DataAt(imageData, idx), Alphas(idx \div 4))
            ELSE imageData.data[idx]]]

\* An image drawn on the canvas of removeWatermarkFromImage (lines 143-148)
\* and the alpha map that will be used on it.
InitRemove ==
  /\ OrchIdle("userscript")
  /\ \E size \in ImageSizes, canvas \in Canvases, kind \in AlphaKinds :
       call = [fn |-> "removeWatermark", runs |-> 0, alpha |-> kind,
               imageData |-> ImageData(size[1], size[2], canvas),
               position |-> calculateWatermarkPosition(size[1], size[2],
                              detectWatermarkConfig(size[1], size[2]))]

\* Lines 149-152.
RemoveRun ==
  /\ call.fn = "removeWatermark" /\ call.runs < MaxRuns
  /\ LET config == detectWatermarkConfig(call.imageData.width, call.imageData.height)
         position == calculateWatermarkPosition(call.imageData.width,
                                                call.imageData.height, config)
         alphaMap == AlphaMapOf(call.alpha, config.logoSize)
     IN  call' = [call EXCEPT !.runs = @ + 1,
                              !.position = position,
                              !.imageData = removeWatermark(@, alphaMap, position)]
  /\ UNCHANGED orchVars

NextRemove == RemoveRun

SpecRemove == InitRemove /\ [][NextRemove]_vars

\* ---------------------------------------------------------------- image processing
\* The userscript's watermark section (lines 409-582) and init (1498-1510)
\* next to a batch job. call holds the page-side state:
\*   data              what window.WATERMARK_DATA offers
\*   removeWatermark   state.removeWatermark
\*   init              position of init(): before or after WatermarkEngine.create
\*   engine, observer  the engine variable; the MutationObserver is installed
\*   alphaMaps         engine.alphaMaps: per size the map object (0: none),
\*                     a map being named by the number of its computation
\*   computed          how often calculateAlphaMap has run per size
\*   imgs              the generated images of the page
\*   processingQueue   the Set of line 410
\*   runs              the processImage calls that are suspended in an await
\*   fetch             a call of the replaced unsafeWindow.fetch; bodyUsed is
\*                     response.bodyUsed of the response of origFetch
MaxImages == 2

ImageIds == 1..MaxImages

RunIds == 1..MaxImages

LogoSizes == {48, 96}

NoRun == [img |-> 0, pc |-> "none", originalSrc |-> "", was |-> "none", size |-> 48, map |-> 0]

NoFetch == [pc |-> "idle", url |-> "none", result |-> "none", bodyUsed |-> FALSE,
            size |-> 48, map |-> 0]

\* Variant of WatermarkEngine.create that does not wait for the captures to load.
WatermarkEngineCreate_NoLoad(data) == IF data = "missing" THEN "null" ELSE "engine"

\* Lines 105-126 with the try of lines 1499-1510: the value of engine after
\* init. Missing data returns null; a capture that fails to load rejects the
\* Promise.all, and the catch leaves engine as it was.
WatermarkEngineCreate(data) == IF data = "ok" THEN "engine" ELSE "null"

\* Variant of getAlphaMap without the test of line 129.
getAlphaMap_NoCache(c, size) ==
  [c EXCEPT !.computed[size] = @ + 1, !.alphaMaps[size] = c.computed[size] + 1]

\* Lines 128-140 (no await inside: the call runs to its end): the page state
\* after the call; the map returned is alphaMaps[size] of that state.
getAlphaMap(c, size) ==
  IF c.alphaMaps[size] # 0 THEN c
  ELSE [c EXCEPT !.computed[size] = @ + 1, !.alphaMaps[size] = c.computed[size] + 1]

\* Line 415-417: the images with a googleusercontent src inside a generated-image.
findGeminiImages(c) == {i \in ImageIds : c.imgs[i].dom /\ c.imgs[i].src = "original"}

\* Variant of the guards of processImage without processingQueue.has.
processImageGuards_NoQueue(c, i) ==
  /\ c.removeWatermark
  /\ c.engine # "null"
  /\ c.imgs[i].mark # "true"

\* Lines 421-423.
processImageGuards(c, i) ==
  /\ c.removeWatermark
  /\ c.engine # "null" /\ i \notin c.processingQueue
  /\ c.imgs[i].mark # "true"

\* Lines 419-433: processImage up to its first await. The call takes a free
\* place of runs.
processImage(c, i) ==
  IF ~processImageGuards(c, i) \/ \A r \in RunIds : c.runs[r].img # 0 THEN c
  ELSE LET r == CHOOSE q \in RunIds : c.runs[q].img = 0 IN
       [c EXCEPT !.processingQueue = @ \cup {i},
                 !.imgs[i].mark = "processing",
                 !.imgs[i].src = "",
                 !.runs[r] = [img |-> i, pc |-> "fetch", originalSrc |-> c.imgs[i].src,
                              was |-> c.imgs[i].mark, size |-> 48, map |-> 0]]

\* images.forEach(processImage) of line 516, from image i on.
RECURSIVE forEachProcessImage(_, _, _)
forEachProcessImage(c, images, i) ==
  IF i > MaxImages THEN c
  ELSE forEachProcessImage(IF i \in images THEN processImage(c, i) ELSE c, images, i + 1)

\* Lines 510-517.
processAllImages(c) ==
  IF ~c.removeWatermark THEN c
  ELSE forEachProcessImage(c, findGeminiImages(c), 1)

\* Variant of the catch block that leaves the src as it is.
processImageFailed_KeepSrc(c, r) ==
  LET i == c.runs[r].img IN
  [c EXCEPT !.imgs[i].mark = "failed",
            !.processingQueue = @ \ {i},
            !.runs[r] = NoRun]

\* Lines 449-455: catch and finally of the run r.
processImageFailed(c, r) ==
  LET i == c.runs[r].img IN
  [c EXCEPT !.imgs[i].mark = "failed",
            !.imgs[i].src = c.runs[r].originalSrc,
            !.processingQueue = @ \ {i},
            !.runs[r] = NoRun]

\* A userscript with the prompts "cat" and "dog"; window.WATERMARK_DATA and
\* the saved preference are what they are; init has created the panel.
InitImages ==
  /\ impl = "userscript"
  /\ promptText = <<"cat", " dog">>
  /\ minDelay = "5" /\ maxDelay = "5"
  /\ isRunning = FALSE /\ isPaused = FALSE
  /\ prompts = <<>>
  /\ currentIndex = 0
  /\ startDisabled = FALSE /\ pauseDisabled = TRUE /\ stopDisabled = TRUE
  /\ status = "Ready"
  /\ handlers = 0 /\ starts = 0 /\ edits = 0
  /\ loops = [l \in LoopIds |-> NoLoop]
  /\ errors = {}
  /\ completed = {}
  /\ clean = TRUE /\ fillLog = <<>> /\ doneLog = <<>> /\ delayLog = <<>>
  /\ startBounds = <<minDelay, maxDelay>>
  /\ stoppedLoops = {}
  /\ \E data \in {"missing", "broken", "ok"}, on \in BOOLEAN :
       /\ wmOn = (on /\ WatermarkEngineCreate(data) # "null")
       /\ call = [fn |-> "images", data |-> data, removeWatermark |-> on,
                  init |-> "create", engine |-> "null", observer |-> FALSE,
                  alphaMaps |-> [s \in LogoSizes |-> 0],
                  computed |-> [s \in LogoSizes |-> 0],
                  imgs |-> [i \in ImageIds |-> [dom |-> FALSE, src |-> "original",
                                                mark |-> "none"]],
                  processingQueue |-> {},
                  runs |-> [r \in RunIds |-> NoRun],
                  fetch |-> NoFetch]

\* init, lines 1498-1510.
EngineCreateDone ==
  /\ call.fn = "images" /\ call.init = "create"
  /\ LET e == WatermarkEngineCreate(call.data) IN
     call' = [call EXCEPT !.init = "done", !.engine = e, !.observer = (e # "null")]
  /\ UNCHANGED orchVars

\* The page shows a generated image.
ImageAppears(i) ==
  /\ call.fn = "images" /\ ~call.imgs[i].dom
  /\ call' = [call EXCEPT !.imgs[i].dom = TRUE]
  /\ UNCHANGED orchVars

\* The page, which owns the element, sets the src of a shown image to its
\* googleusercontent URL again.
PageSetsSrc(i) ==
  /\ call.fn = "images" /\ call.imgs[i].dom /\ call.imgs[i].src # "original"
  /\ call' = [call EXCEPT !.imgs[i].src = "original"]
  /\ UNCHANGED orchVars

\* The MutationObserver of line 1503 calls processAllImages after a change of
\* the document.
ObserverFires ==
  /\ call.fn = "images" /\ call.observer
  /\ call' = processAllImages(call)
  /\ UNCHANGED orchVars

\* Line 433: fetchBlob returns.
FetchBlobDone(r, ok) ==
  /\ call.fn = "images" /\ call.runs[r].pc = "fetch"
  /\ call' = IF ok THEN [call EXCEPT !.runs[r].pc = "load"]
             ELSE processImageFailed(call, r)
  /\ UNCHANGED orchVars

\* Lines 182-190: the request of fetchBlob ends by abort or timeout. Only
\* onload and onerror are registered, so the promise is never settled and the
\* call of processImage stays suspended in line 433.
FetchBlobAborted(r) ==
  /\ call.fn = "images" /\ call.runs[r].pc = "fetch"
  /\ call' = [call EXCEPT !.runs[r].pc = "aborted"]
  /\ UNCHANGED orchVars

\* Lines 435-436 with 142-151: loadImage returns an image whose size selects
\* the logo of the given size, and removeWatermarkFromImage runs up to its await.
LoadImageDone(r, ok, size) ==
  /\ call.fn = "images" /\ call.runs[r].pc = "load"
  /\ call' = IF ok
             THEN LET c == getAlphaMap(call, size) IN
                  [c EXCEPT !.runs[r].pc = "remove", !.runs[r].size = size,
                            !.runs[r].map = c.alphaMaps[size]]
             ELSE processImageFailed(call, r)
  /\ UNCHANGED orchVars

\* Lines 152-154 and 437: removeWatermarkFromImage returns the canvas (or throws).
RemoveWatermarkDone(r, ok) ==
  /\ call.fn = "images" /\ call.runs[r].pc = "remove"
  /\ call' = IF ok THEN [call EXCEPT !.runs[r].pc = "blob"]
             ELSE processImageFailed(call, r)
  /\ UNCHANGED orchVars

\* Lines 437-455: canvasToBlob returns the blob, or null, for which
\* URL.createObjectURL throws.
CanvasToBlobDone(r, ok) ==
  /\ call.fn = "images" /\ call.runs[r].pc = "blob"
  /\ call' = IF ok
             THEN LET i == call.runs[r].img IN
                  [call EXCEPT !.imgs[i].src = "processed",
                               !.imgs[i].mark = "true",
                               !.processingQueue = @ \ {i},
                               !.runs[r] = NoRun]
             ELSE processImageFailed(call, r)
  /\ UNCHANGED orchVars

\* Lines 544-559: the page fetches an image URL; the size parameter is
\* replaced and origFetch is called.
FetchIntercept ==
  /\ call.fn = "images" /\ call.fetch.pc \in {"idle", "returned"}
  /\ call' = [call EXCEPT !.fetch = [NoFetch EXCEPT !.pc = "origFetch", !.url = "=s0"]]
  /\ UNCHANGED orchVars

\* Lines 559-568: origFetch returns a response; unless it is returned at
\* once, response.blob() is called, which reads its body.
OrigFetchDone(ok) ==
  /\ call.fn = "images" /\ call.fetch.pc = "origFetch"
  /\ call' = IF ~call.removeWatermark \/ call.engine = "null" \/ ~ok
             THEN [call EXCEPT !.fetch.pc = "returned", !.fetch.result = "response"]
             ELSE [call EXCEPT !.fetch.pc = "load", !.fetch.bodyUsed = TRUE]
  /\ UNCHANGED orchVars

\* Lines 526-529: response.blob and loadImage return, removeWatermarkFromImage
\* runs up to its await; a failure is caught in line 575.
FetchLoadDone(ok, size) ==
  /\ call.fn = "images" /\ call.fetch.pc = "load"
  /\ call' = IF ok
             THEN LET c == getAlphaMap(call, size) IN
                  [c EXCEPT !.fetch.pc = "remove", !.fetch.size = size,
                            !.fetch.map = c.alphaMaps[size]]
             ELSE [call EXCEPT !.fetch.pc = "returned", !.fetch.result = "response"]
  /\ UNCHANGED orchVars

\* Lines 529-531 and 570-574: the canvas is encoded and returned as the response.
FetchProcessDone(ok) ==
  /\ call.fn = "images" /\ call.fetch.pc = "remove"
  /\ call' = [call EXCEPT !.fetch.pc = "returned",
                          !.fetch.result = IF ok THEN "processed" ELSE "response"]
  /\ UNCHANGED orchVars

\* runAutomation lines 1423-1425 with the images of the page.
USWmSleepImages(l) ==
  /\ USWmSleepReturn(l)
  /\ call' = processAllImages(call)

\* A step of a batch job whose remote steps succeed; the user starts it
\* after init.
JobStep ==
  /\ call.init = "done"
  /\ \/ startAutomation
     \/ \E l \in LoopIds :
          \/ USFillDone(l, "ok")
          \/ USTriggerDone(l, "ok")
          \/ USWaitDone(l)
          \/ USWmSleepImages(l)
          \/ USDelayDone(l)

NextImages ==
  \/ EngineCreateDone
  \/ \E i \in ImageIds : ImageAppears(i)
  \/ \E i \in ImageIds : PageSetsSrc(i)
  \/ ObserverFires
  \/ \E r \in RunIds, ok \in BOOLEAN : FetchBlobDone(r, ok)
  \/ \E r \in RunIds : FetchBlobAborted(r)
  \/ \E r \in RunIds, ok \in BOOLEAN, size \in LogoSizes : LoadImageDone(r, ok, size)
  \/ \E r \in RunIds, ok \in BOOLEAN : RemoveWatermarkDone(r, ok)
  \/ \E r \in RunIds, ok \in BOOLEAN : CanvasToBlobDone(r, ok)
  \/ FetchIntercept
  \/ \E ok \in BOOLEAN : OrigFetchDone(ok)
  \/ \E ok \in BOOLEAN, size \in LogoSizes : FetchLoadDone(ok, size)
  \/ \E ok \in BOOLEAN : FetchProcessDone(ok)
  \/ JobStep

SpecImages == InitImages /\ [][NextImages]_vars

\* ---------------------------------------------------------------- waitForCompletion
\* content.js lines 186-263 and userscript lines 369-403, with the stop
\* control of the page and the orchestrator's trigger of the next item.
MaxShows == 2      \* times the stop control becomes visible

\* The value the promise is resolved with: {success: true, message: 'Complete'}
\* or {success: false, error: 'Timeout'} in content.js, undefined in the userscript.
ResultOf(v) == IF impl = "userscript" THEN "undefined" ELSE v

\* A call of resolve: the first one settles the promise, a later one changes nothing.
resolve(c, v) ==
  [c EXCEPT !.resolves = @ + 1,
            !.pc = "resolved",
            !.result = IF c.pc = "resolved" THEN @ ELSE ResultOf(v)]

\* waitForCompletion has been called for item 1 and is in its sleep(3000);
\* the stop control of the item's generation is visible already, or not yet.
\* gen is the item whose generation showed the stop control last, late tells
\* whether a callback of the call took the end of a later item's generation
\* for the end of its own.
InitWait ==
  /\ \E b \in {"sidepanel", "userscript"} : OrchIdle(b)
  /\ \E v \in BOOLEAN :
       call = [fn |-> "waitForCompletion", pc |-> "sleep", stopBtn |-> v,
               shows |-> IF v THEN 1 ELSE 0, gen |-> IF v THEN 1 ELSE 0, item |-> 1,
               timeout |-> FALSE, observer |-> FALSE, backupInterval |-> FALSE,
               settle |-> 0, result |-> "none", resolves |-> 0, late |-> FALSE]

\* The page shows the stop control: a generation of the item triggered last is running.
StopControlShows ==
  /\ call.fn = "waitForCompletion" /\ ~call.stopBtn /\ call.shows < MaxShows
  /\ call' = [call EXCEPT !.stopBtn = TRUE, !.shows = @ + 1, !.gen = call.item]
  /\ UNCHANGED orchVars

\* The page removes or hides the stop control: the generation is over.
StopControlHides ==
  /\ call.fn = "waitForCompletion" /\ call.stopBtn
  /\ call' = [call EXCEPT !.stopBtn = FALSE]
  /\ UNCHANGED orchVars

\* The orchestrator, which has the result of the call, triggers the next item.
NextItemTriggered ==
  /\ call.fn = "waitForCompletion" /\ call.pc = "resolved" /\ call.item = 1
  /\ call' = [call EXCEPT !.item = 2]
  /\ UNCHANGED orchVars

\* content.js lines 194-260, userscript lines 371-401: sleep(3000) returns and
\* the executor of the promise runs: the initial check, or the timeout, the
\* observer and (content.js only) the backup interval are set up.
WaitSleepDone ==
  /\ call.fn = "waitForCompletion" /\ call.pc = "sleep"
  /\ call' = IF ~call.stopBtn THEN resolve(call, "Complete")
             ELSE [call EXCEPT !.pc = "pending", !.timeout = TRUE, !.observer = TRUE,
                               !.backupInterval = (impl = "sidepanel")]
  /\ UNCHANGED orchVars

\* content.js lines 211-215, userscript lines 382-385: the timeout callback.
WaitTimeoutFires ==
  /\ call.fn = "waitForCompletion" /\ call.timeout
  /\ call' = resolve([call EXCEPT !.timeout = FALSE, !.observer = FALSE], "Timeout")
  /\ UNCHANGED orchVars

\* content.js lines 229-237 and 252-259, userscript lines 389-392: the stop
\* control was found gone: clearTimeout, observer.disconnect, setTimeout(resolve, 2000).
StopControlGone(c) ==
  [c EXCEPT !.timeout = FALSE, !.observer = FALSE, !.settle = @ + 1,
            !.late = @ \/ c.gen > 1]

\* content.js lines 218-238, userscript lines 387-393: the observer callback
\* after a change of the document that leaves the stop control gone (with the
\* control visible the callback changes nothing).
WaitObserverFires ==
  /\ call.fn = "waitForCompletion" /\ call.observer /\ ~call.stopBtn
  /\ call' = StopControlGone(call)
  /\ UNCHANGED orchVars

\* content.js lines 250-260: a tick of the backup interval that finds the stop
\* control gone (with the control visible the tick changes nothing).
WaitIntervalFires ==
  /\ call.fn = "waitForCompletion" /\ call.backupInterval /\ ~call.stopBtn
  /\ call' = [StopControlGone(call) EXCEPT !.backupInterval = FALSE]
  /\ UNCHANGED orchVars

\* content.js lines 235-237 and 257-259, userscript line 392: a 2-second timer fires.
WaitSettleFires ==
  /\ call.fn = "waitForCompletion" /\ call.settle > 0
  /\ call' = resolve([call EXCEPT !.settle = @ - 1], "Complete")
  /\ UNCHANGED orchVars

NextWait ==
  \/ StopControlShows
  \/ StopControlHides
  \/ NextItemTriggered
  \/ WaitSleepDone
  \/ WaitTimeoutFires
  \/ WaitObserverFires
  \/ WaitIntervalFires
  \/ WaitSettleFires

SpecWait == InitWait /\ [][NextWait]_vars

\* ---------------------------------------------------------------- fair runs
\* The return of the step that loop l awaits, pause wait included.
LoopStep(l) == StepScenario(l) \/ SPPauseWake(l) \/ USPauseWake(l)

\* The user resumes a paused job.
Resume == isPaused /\ (SPPauseClick \/ pauseAutomation)

\* Every awaited step eventually returns, a pending start handler eventually
\* finishes its checks and a paused job is eventually resumed (or stopped).
SpecLive ==
  /\ Spec
  /\ WF_vars(StartHandlerDone)
  /\ WF_vars(Resume)
  /\ \A l \in LoopIds : SF_vars(LoopStep(l))

\* The awaited step of the call r of processImage returns, or its request ends.
RunStep(r) ==
  \/ \E ok \in BOOLEAN : FetchBlobDone(r, ok)
  \/ FetchBlobAborted(r)
  \/ \E ok \in BOOLEAN, size \in LogoSizes : LoadImageDone(r, ok, size)
  \/ \E ok \in BOOLEAN : RemoveWatermarkDone(r, ok)
  \/ \E ok \in BOOLEAN : CanvasToBlobDone(r, ok)

\* Every request ends and every other awaited step of processImage returns.
SpecImagesLive == SpecImages /\ \A r \in RunIds : WF_vars(RunStep(r))

\* ---------------------------------------------------------------- properties
InFlight == {l \in LoopIds : loops[l].pc \in RemotePcs}

\* A loop at one of these has an attempt of item i under way.
AttemptPcs == {"probe", "fill", "fillsleep", "trigger", "wait", "wmsleep"}

\* The items a start click would read from the text area.
StartItems ==
  IF impl = "sidepanel" THEN parsePrompts(promptText) ELSE splitPrompts(promptText)

\* The start preconditions: some item, min delay >= 5, min delay < max delay.
ValidInputs ==
  /\ Len(StartItems) > 0
  /\ JsGe(parseInt(minDelay), {5})
  /\ JsLt(parseInt(minDelay), parseInt(maxDelay))

InOrder(q) == \A k \in 1..Len(q) : q[k] = k - 1

LostLine == "Lost connection to Gemini tab - stopping"
CompletedLine == "All prompts completed successfully"

\* C1: in every reachable state the cursor is within 0..prompts.length (here
\* for the runs in which the inputs are never edited).
C1_CursorInRange == edits = 0 => (0 <= currentIndex /\ currentIndex <= Len(prompts))

\* C2: whenever completion is reported, the cursor equals the number of items.
C2_CompletedAtEnd == \A r \in completed : r.cursor = r.total

C2_Witness == \E r \in completed : r.total = 2 /\ impl = "sidepanel" /\ ~clean

\* C3: at most one remote operation (fill, trigger, await-completion) is in
\* flight at any time.
C3_OneInFlight == Cardinality(InFlight) <= 1

\* C4: a start is accepted only if there is an item, the min delay is at
\* least 5 and the min delay is below the max delay.
C4_StartOnlyIfValid == [][starts' # starts => ValidInputs]_vars

\* C5: an item whose attempt failed with a non-fatal error is not attempted
\* again: no loop works on the item its previous attempt failed on.
C5_NoRetry ==
  \A l \in LoopIds : loops[l].pc \in AttemptPcs => loops[l].i # loops[l].last

\* C6: when the tab check of item k fails, isRunning becomes false, the cursor
\* is unchanged and equals the number of items before k, the loop returns and
\* no completion is reported.
C6_ProbeFailure ==
  [][\A l \in LoopIds :
       (impl = "sidepanel" /\ loops[l].pc = "probe" /\ loops'[l].pc = "done")
       => /\ ~isRunning'
          /\ currentIndex' = currentIndex
          /\ currentIndex = loops[l].i
          /\ completed' = completed
          /\ CompletedLine \notin loops'[l].log]_vars

\* C7: when a step rejects with a connection-lost error, isRunning is false
\* at once, the loop returns without attempting a later item and without
\* reporting completion; a loop that has returned never acts again.
C7_LostEndsRun ==
  [][\A l \in LoopIds :
       /\ (loops[l].pc # "done" /\ LostLine \in loops'[l].log)
          => /\ ~isRunning'
             /\ loops'[l].pc = "done"
             /\ completed' = completed
             /\ CompletedLine \notin loops'[l].log
       /\ loops[l].pc = "done" => loops'[l] = loops[l]]_vars

C7_Witness ==
  \E l \in LoopIds : LostLine \in loops[l].log /\ Len(prompts) = 2 /\ currentIndex = 1

C9_NoFillWhilePaused ==
  [][\A l \in LoopIds :
       (loops[l].pc # "fill" /\ loops'[l].pc = "fill") => ~isPaused']_vars

\* C10: in a run that is never stopped, in which every step succeeds and
\* nothing else interferes, the items are filled and completed exactly once
\* each in index order, whatever the pauses and resumes, and completion is
\* reported only after all of them.
C10_ExactlyOnceInOrder ==
  clean =>
    /\ InOrder(fillLog) /\ InOrder(doneLog)
    /\ Len(doneLog) <= Len(fillLog) /\ Len(fillLog) <= Len(doneLog) + 1
    /\ \A r \in completed : Len(fillLog) = r.total /\ Len(doneLog) = r.total

C10_Witness ==
  clean /\ Len(doneLog) = 2 /\ \E r \in completed : r.paused

\* C11: after stop, a loop of the stopped run dispatches no further protocol
\* step (fill, trigger, await-completion) and never changes the cursor again.
C11_StoppedRunAbandons ==
  [][\A l \in stoppedLoops :
       loops'[l] # loops[l]
       => /\ loops'[l].pc \in RemotePcs => loops'[l].pc = loops[l].pc
          /\ currentIndex' = currentIndex]_vars

\* C12: a waitForCompletion that ends by its 3-minute timeout (its only
\* unsuccessful response, content.js line 214) is treated as a completed
\* item: the cursor advances past the item and, if items remain, the job
\* stays running and the inter-item delay follows.
C12_TimeoutLikeSuccess ==
  [][\A l \in LoopIds :
       (isRunning /\ SPWaitDone(l, "failed"))
       => /\ currentIndex' = loops[l].i + 1
          /\ loops[l].i < Len(prompts) - 1 => (isRunning' /\ loops'[l].pc = "delay")]_vars

\* C13: every inter-item delay slept during a run lies within the bounds the
\* delay fields had when the run was started, and is at least 5 seconds
\* (here for the runs started with min >= 5 and min < max).
C13_DelayWithinStartBounds ==
  (JsGe(parseInt(startBounds[1]), {5}) /\ JsLt(parseInt(startBounds[1]), parseInt(startBounds[2])))
  =>
  \A k \in 1..Len(delayLog) : \A d \in delayLog[k] :
    /\ JsGe({d}, parseInt(startBounds[1]))
    /\ JsGe(parseInt(startBounds[2]), {d})
    /\ d >= 5

\* Scenario A: items "cat", "dog", both delay fields 5, no failed step.
ScenarioA ==
  /\ promptText = <<"cat", " dog">> /\ minDelay = "5" /\ maxDelay = "5"
  /\ clean

ScenarioAOutcome ==
  \A r \in completed : r.cursor = 2 /\ r.total = 2 /\ delayLog = <<{5}>>

\* C14 (as claimed): a start of Scenario A is accepted in both builds and the
\* run ends completed with the cursor at 2 after exactly one delay of 5 s.
C14_ScenarioA_AsClaimed == ScenarioA => (errors = {} /\ ScenarioAOutcome)

\* C14 (amended): in the userscript a started Scenario A reports completion
\* with the cursor at 2 after exactly one delay, of 5 seconds; the side panel
\* refuses to start it, because min is not less than max.
C14_ScenarioA ==
  /\ [](ScenarioA =>
          /\ impl = "sidepanel" => (starts = 0 /\ handlers = 0 /\ ~isRunning
                                     /\ \A l \in LoopIds : loops[l] = NoLoop)
          /\ impl = "userscript" => (ScenarioAOutcome /\ Len(delayLog) <= 1))
  /\ (ScenarioA /\ impl = "userscript" /\ starts > 0) ~> (completed # {} \/ ~clean)

C14_Witness ==
  ScenarioA /\ impl = "userscript" /\ completed # {} /\ currentIndex = 2 /\ delayLog = <<{5}>>

\* C15: every started job eventually leaves Running.
C15_EventuallyNotRunning == isRunning ~> ~isRunning

\* C16: while a run is Running or Paused no action changes state.prompts.
C16_PromptsFixedDuringRun == [][isRunning => prompts' = prompts]_vars

\* C17: the cursor never decreases except by a start (here for the runs in
\* which the inputs are never edited).
C17_CursorMonotone ==
  [][(edits = 0 /\ currentIndex' < currentIndex)
     => (starts' > starts \/ handlers' < handlers)]_vars

ClosedLine == "Gemini tab was closed - stopping batch process"

\* C18: when a fatal error ends a run (tab closed at the tab check, or
\* connection lost during a step), the start button is enabled and the pause
\* and stop buttons are disabled.
C18_ControlsIdleAfterFatal ==
  [][\A l \in LoopIds :
       (loops[l].pc # "done" /\ loops'[l].log \cap {ClosedLine, LostLine} # {})
       => (~startDisabled' /\ pauseDisabled' /\ stopDisabled')]_vars

\* C19: clickGenerate checks at most 20 times, and when no check found the
\* control available it clicks nothing and fails with an error.
C19_ClickGenerateCap ==
  /\ call.checks <= 20
  /\ (call.result # "running" /\ ~call.seen)
     => (call.result = "error" /\ call.clicked = "nothing")

\* C20: the Large variant (logo 96, margins 64/64) is chosen iff width > 1024
\* and height > 1024, the Small variant (logo 48, margins 32/32) otherwise,
\* and the footprint is logo x logo at (width - margin - logo, height - margin
\* - logo): 160 resp. 80 from the right and bottom edges.
C20_WatermarkGeometry ==
  LET w == call.width
      h == call.height
      large == w > 1024 /\ h > 1024 IN
  /\ call.stage \in {"config", "position"}
     => /\ large => call.config = [logoSize |-> 96, marginRight |-> 64, marginBottom |-> 64]
        /\ ~large => call.config = [logoSize |-> 48, marginRight |-> 32, marginBottom |-> 32]
  /\ call.stage = "position"
     => /\ large => call.position = [x |-> w - 160, y |-> h - 160, width |-> 96, height |-> 96]
        /\ ~large => call.position = [x |-> w - 80, y |-> h - 80, width |-> 48, height |-> 48]

C20_Witness ==
  /\ call.stage = "position" /\ call.width = 800 /\ call.height = 800
  /\ call.config.logoSize = 48
  /\ call.position = [x |-> 720, y |-> 720, width |-> 48, height |-> 48]

\* C23: a channel byte composited with a white logo at an opacity k/255 in
\* [0.002, 0.99] and stored as a byte is restored by removeWatermark to within
\* 1 of the original.
C23_RoundTrip ==
  (/\ call.fn = "channel" /\ call.stage = "restored"
   /\ call.alpha \in CaptureAlphas
   /\ ~NumLt(call.alpha, ALPHA_THRESHOLD) /\ ~NumLt(MAX_ALPHA, call.alpha)
   /\ call.observed = CompositeByte(call.original, call.alpha))
  => (call.restored - call.original \in -1..1)

\* C24: whatever the alpha value and the observed byte, the divisor of line 66
\* is at least 0.01 and the byte written is an integer of 0..255.
C24_NoBlowUp ==
  (call.fn = "channel" /\ call.stage = "restored" /\ ~call.skipped)
  => /\ ~NumLt(call.divisor, Num(1, 100))
     /\ call.restored \in Bytes

C24_Witness ==
  /\ call.fn = "channel" /\ call.stage = "restored"
  /\ call.alpha = Num(3, 2) /\ call.observed = 254
  /\ call.divisor = Num(1, 100) /\ call.restored = 155

\* The bytes of the image that differ from what the canvas held.
Changed == {idx \in DOMAIN call.imageData.data :
              call.imageData.data[idx] # CanvasByte(call.imageData.canvas, idx)}

\* Pixel p of the image lies in the footprint of the position.
InFootprint(p) ==
  /\ p % call.imageData.width \in call.position.x..(call.position.x + call.position.width - 1)
  /\ p \div call.imageData.width \in call.position.y..(call.position.y + call.position.height - 1)

\* C21: removeWatermark changes only R, G and B bytes of pixels inside the
\* footprint of the position.
C21_OnlyFootprintRGB ==
  call.fn = "removeWatermark" => \A idx \in Changed : idx % 4 # 3 /\ InFootprint(idx \div 4)

\* The image is narrower or lower than margin + logo size.
TooSmall ==
  LET config == detectWatermarkConfig(call.imageData.width, call.imageData.height) IN
  \/ call.imageData.width < config.marginRight + config.logoSize
  \/ call.imageData.height < config.marginBottom + config.logoSize

\* C22: the footprint that removeWatermarkFromImage uses lies inside the
\* image, and an image smaller than margin + logo size is not processed and
\* keeps every pixel.
C22_FootprintInsideImage ==
  call.fn = "removeWatermark" =>
    /\ call.runs > 0 =>
          /\ 0 <= call.position.x /\ 0 <= call.position.y
          /\ call.position.x + call.position.width <= call.imageData.width
          /\ call.position.y + call.position.height <= call.imageData.height
    /\ TooSmall => (call.runs = 0 /\ Changed = {})

\* C25: with an all-zero alpha map removeWatermark assigns no byte, however
\* often it is applied, and in an image that holds the footprint it assigns
\* no byte of a pixel whose alpha is below 0.002: the image is unchanged there.
C25_ZeroAlphaIdentity ==
  call.fn = "removeWatermark" =>
    /\ call.alpha = "zero" => (call.imageData.data = ImageData(0, 0, "black").data /\ Changed = {})
    /\ ~TooSmall =>
          \A idx \in DOMAIN call.imageData.data :
            LET p == idx \div 4
                row == (p \div call.imageData.width) - call.position.y
                col == (p % call.imageData.width) - call.position.x
            IN  ~Skipped(AlphaMapOf(call.alpha, call.position.width)[row * call.position.width + col])

C25_Witness ==
  /\ call.fn = "removeWatermark" /\ call.runs = MaxRuns /\ call.alpha = "zero"
  /\ call.imageData.width = 80 /\ call.imageData.canvas = "ramp"

\* The processImage calls in flight, and the images they work on.
ActiveRuns == {r \in RunIds : call.runs[r].img # 0}

\* C26: calculateAlphaMap runs at most once per size, and every call of
\* getAlphaMap for a size, from overlapping processImage calls and intercepted
\* fetches, has returned the one map of that size.
C26_AlphaMapOnce ==
  call.fn = "images" =>
    \A s \in LogoSizes :
      /\ call.computed[s] <= 1
      /\ call.alphaMaps[s] = call.computed[s]
      /\ \A r \in ActiveRuns :
            (call.runs[r].pc \in {"remove", "blob"} /\ call.runs[r].size = s)
            => (call.runs[r].map = 1 /\ call.runs[r].map = call.alphaMaps[s])
      /\ (call.fetch.pc = "remove" /\ call.fetch.size = s)
         => (call.fetch.map = 1 /\ call.fetch.map = call.alphaMaps[s])

C26_Witness ==
  /\ call.fn = "images"
  /\ \A r \in RunIds : call.runs[r].pc = "remove" /\ call.runs[r].size = 48
  /\ call.fetch.pc = "remove" /\ call.fetch.size = 48
  /\ call.computed[48] = 1

C28_NeverReprocessed ==
  call.fn = "images" => \A r \in ActiveRuns : call.runs[r].was = "none"

\* C29: no two processImage calls in flight work on the same image element.
C29_NoSelfOverlap ==
  call.fn = "images" =>
    \A r1, r2 \in ActiveRuns : call.runs[r1].img = call.runs[r2].img => r1 = r2

C29_Witness ==
  /\ call.fn = "images"
  /\ call.runs[1].img # 0 /\ call.runs[2].img # 0 /\ call.runs[1].img # call.runs[2].img
  /\ \E i \in ImageIds : call.imgs[i].src = "original" /\ i \in call.processingQueue

\* C30: the step in which a processImage call fails leaves the image with
\* the src it had before the call and the mark 'failed', and leaves
\* isRunning, isPaused and currentIndex as they are.
C30_FailureRestores ==
  [][call.fn = "images" =>
       \A r \in ActiveRuns :
         LET i == call.runs[r].img IN
         (call'.runs[r].img = 0 /\ call'.imgs[i].mark # "true")
         => /\ call'.imgs[i].mark = "failed"
            /\ call'.imgs[i].src = call.runs[r].originalSrc
            /\ call.runs[r].originalSrc = "original"
            /\ isRunning' = isRunning /\ isPaused' = isPaused
            /\ currentIndex' = currentIndex]_vars

C30_Witness ==
  /\ call.fn = "images"
  /\ call.imgs[1].mark = "failed" /\ call.imgs[1].src = "original"
  /\ 1 \notin call.processingQueue
  /\ isRunning /\ currentIndex = 1

\* C31: an intercepted fetch whose processing failed returns the response of
\* origFetch with its body unread; the other returned responses are the
\* processed bytes or the response that was never read.
C31_FailedFetchReadable ==
  (call.fn = "images" /\ call.fetch.pc = "returned")
  => /\ call.fetch.result \in {"response", "processed"}
     /\ call.fetch.result = "response" => ~call.fetch.bodyUsed

\* C32: a fill or trigger whose result is a failure ends the attempt of its
\* item: the step in which it returns (the only step of a loop that gives up
\* the premise "clean") does not lead to a later step of the same attempt.
C32_FailedStepEndsAttempt ==
  [][\A l \in LoopIds :
       (loops[l].pc \in {"fill", "trigger"} /\ loops'[l] # loops[l] /\ clean /\ ~clean')
       => loops'[l].pc \notin {"fillsleep", "trigger", "wait"}]_vars

\* C33: a loop that has a protocol step of item i in flight finds the cursor
\* at i (for the loops of a run that was not stopped).
C33_DispatchAtCursor ==
  \A l \in LoopIds \ stoppedLoops :
    loops[l].pc \in RemotePcs \cup {"probe"} => loops[l].i = currentIndex

\* C34: no completion is reported while the job is paused.
C34_CompletedOnlyFromRunning == \A r \in completed : ~r.paused

\* The first remote operation of an attempt: the liveness check of the side
\* panel (chrome.tabs.get, line 217), fillPrompt in the userscript (line 1418).
FirstStep == IF impl = "sidepanel" THEN "probe" ELSE "fill"

\* C35: a loop whose previous attempt failed reaches the first remote
\* operation of its next attempt only from a sleep (the sleep of the catch
\* block, or the pause wait that followed it).
C35_SettleAfterFailure ==
  [][\A l \in LoopIds :
       (loops'[l] # loops[l] /\ loops'[l].pc = FirstStep /\ loops'[l].last # -1)
       => loops[l].pc \in {"errsleep", "pausewait"}]_vars

\* C36: in every reachable state isRunning false implies isPaused false.
C36_IdleNotPaused == ~isRunning => ~isPaused

\* C37: the read of state.prompts[i] at line 206 never finds i outside
\* 0..state.prompts.length - 1.
C37_ReadInRange == \A l \in LoopIds : loops[l].pc # "crashed"

\* C38: every image that is in processingQueue eventually has the mark 'true'
\* or 'failed' and is out of processingQueue.
C38_InFlightSettles ==
  \A i \in ImageIds :
    (i \in call.processingQueue)
    ~> (i \notin call.processingQueue /\ call.imgs[i].mark \in {"true", "failed"})

\* C40: after every step an image is in processingQueue exactly if its mark
\* is 'processing', and a step changes a mark only from unset to 'processing'
\* or from 'processing' to 'true' or 'failed'.
C40_QueueMatchesMark ==
  [][call.fn = "images" =>
       \A i \in ImageIds :
         /\ i \in call'.processingQueue <=> call'.imgs[i].mark = "processing"
         /\ \/ call'.imgs[i].mark = call.imgs[i].mark
            \/ call.imgs[i].mark = "none" /\ call'.imgs[i].mark = "processing"
            \/ /\ call.imgs[i].mark = "processing"
               /\ call'.imgs[i].mark \in {"true", "failed"}]_vars

\* C39: no callback of a waitForCompletion call takes the end of a later
\* item's generation for the end of its own.
C39_NoLateCallback == call.fn = "waitForCompletion" => ~call.late
====
